---- MODULE Spec2Model ----
(***************************************************************************)
(* Model of src/main.py: the visa-status inference                         *)
(* (IntelligenceEngine.infer_visa_status), the candidate source            *)
(* (SourcingEngine.find_candidates) and the filtering handler              *)
(* (source_candidates).                                                    *)
(*                                                                         *)
(* Python strings are sequences of one-character strings, so that          *)
(* str.lower, the substring test, slicing and int() are computed.          *)
(*                                                                         *)
(* Left out, because nothing read by the modelled code depends on it:      *)
(* the 'degree' key of an education record and the 'skills' of a           *)
(* candidate (never read), and parse_skills_from_text, whose result only   *)
(* enters the query text sent to the provider, whose answer is arbitrary.  *)
(* Within one request the clock stays in one calendar year.                *)
(***************************************************************************)
EXTENDS Integers, Sequences, FiniteSets, TLC

VARIABLES
    \* --- one call of infer_visa_status, followed line by line ---
    education_history,   \* the argument
    ipc,                 \* position: "idle" | "scan" | "returned" | "raised"
    k,                   \* number of records the for loop has consumed
    has_us_degree,       \* local of infer_visa_status
    us_grad_year,        \* local of infer_visa_status
    current_year,        \* datetime.now().year, read after the scan
    status,              \* the value returned ("" while none)
    \* --- one request to POST /automations/source-candidates ---
    PDL_API_KEY,         \* TRUE iff the environment variable is non-empty
    request,             \* the JobRequest after pydantic validation
    provider,            \* what the provider will answer to requests.get
    pc,                  \* position in source_candidates / find_candidates
    calls,               \* number of requests.get calls issued
    raw_candidates,      \* list returned by find_candidates
    verified_candidates, \* list built by the handler
    i,                   \* loop index of the handler (candidates consumed)
    response             \* the handler's JSON result, or the error raised

vars == <<education_history, ipc, k, has_us_degree, us_grad_year, current_year,
          status, PDL_API_KEY, request, provider, pc, calls, raw_candidates,
          verified_candidates, i, response>>

inferVars == <<education_history, ipc, k, has_us_degree, us_grad_year,
               current_year, status>>

requestVars == <<PDL_API_KEY, request, provider, pc, calls, raw_candidates,
                 verified_candidates, i, response>>

(***************************************************************************)
(* Bounds                                                                  *)
(***************************************************************************)
MaxEdu == 3          \* longest education history explored
MaxCands == 2        \* longest provider payload explored

(***************************************************************************)
(* Python string primitives                                                *)
(***************************************************************************)
UpperCase == <<"A","B","C","D","E","F","G","H","I","J","K","L","M",
               "N","O","P","Q","R","S","T","U","V","W","X","Y","Z">>
LowerCase == <<"a","b","c","d","e","f","g","h","i","j","k","l","m",
               "n","o","p","q","r","s","t","u","v","w","x","y","z">>
DigitChars == <<"0","1","2","3","4","5","6","7","8","9">>

\* str.lower on one character
LowerChar(ch) ==
    IF \E j \in 1..26 : UpperCase[j] = ch
    THEN LowerCase[CHOOSE j \in 1..26 : UpperCase[j] = ch]
    ELSE ch

\* str.lower
Lower(s) == [j \in 1..Len(s) |-> LowerChar(s[j])]

\* the Python operator  sub in s
Contains(sub, s) ==
    \E j \in 0..(Len(s) - Len(sub)) : SubSeq(s, j + 1, j + Len(sub)) = sub

\* the slice s[:n]
Prefix(s, n) == SubSeq(s, 1, IF Len(s) < n THEN Len(s) ELSE n)

IsDigit(ch) == \E j \in 1..10 : DigitChars[j] = ch
DigitVal(ch) == (CHOOSE j \in 1..10 : DigitChars[j] = ch) - 1

\* str.strip restricted to blanks
RECURSIVE LStrip(_)
LStrip(s) == IF s # <<>> /\ Head(s) = " " THEN LStrip(Tail(s)) ELSE s
RECURSIVE RStrip(_)
RStrip(s) ==
    IF s # <<>> /\ s[Len(s)] = " " THEN RStrip(SubSeq(s, 1, Len(s) - 1)) ELSE s
Strip(s) == LStrip(RStrip(s))

RECURSIVE DecValue(_)
DecValue(s) ==
    IF s = <<>> THEN 0
    ELSE 10 * DecValue(SubSeq(s, 1, Len(s) - 1)) + DigitVal(s[Len(s)])

AllDigits(s) == s # <<>> /\ \A j \in 1..Len(s) : IsDigit(s[j])

\* the digit part of an int literal: digits, single underscores between them
DigitsOk(s) ==
    /\ s # <<>>
    /\ IsDigit(s[1]) /\ IsDigit(s[Len(s)])
    /\ \A j \in 1..Len(s) : IsDigit(s[j]) \/ s[j] = "_"
    /\ \A j \in 1..(Len(s) - 1) : ~(s[j] = "_" /\ s[j + 1] = "_")
DropUnderscores(s) == SelectSeq(s, LAMBDA ch : ch # "_")

\* int(s): blanks around, an optional sign, then the digit part; anything
\* else is a ValueError
IntBody(s) == IF s # <<>> /\ Head(s) \in {"+", "-"} THEN Tail(s) ELSE s
IntOk(s) == DigitsOk(IntBody(Strip(s)))
IntValue(s) ==
    LET t == Strip(s)
    IN  IF t # <<>> /\ Head(t) = "-"
        THEN 0 - DecValue(DropUnderscores(IntBody(t)))
        ELSE DecValue(DropUnderscores(IntBody(t)))

\* str(n) for a non-negative int
RECURSIVE NatToStr(_)
NatToStr(n) ==
    IF n < 10 THEN <<DigitChars[n + 1]>>
    ELSE Append(NatToStr(n \div 10), DigitChars[(n % 10) + 1])

(***************************************************************************)
(* Values of the dictionaries' fields                                      *)
(***************************************************************************)
Absent == [kind |-> "absent"]                  \* the key is not in the dict
None == [kind |-> "null"]                      \* JSON null
StrV(s) == [kind |-> "str", s |-> s]
IntV(n) == [kind |-> "int", n |-> n]

\* edu.get('country', '')
GetCountry(edu) == IF edu.country.kind = "absent" THEN <<>> ELSE edu.country.s

\* str(edu.get('end_date', ''))
DateStr(edu) ==
    CASE edu.end_date.kind = "absent" -> <<>>
      [] edu.end_date.kind = "null"   -> <<"N","o","n","e">>
      [] edu.end_date.kind = "int"    -> NatToStr(edu.end_date.n)
      [] OTHER                        -> edu.end_date.s

s_united_states == <<"u","n","i","t","e","d"," ","s","t","a","t","e","s">>
s_usa == <<"u","s","a">>

\* the test of line 136 on one record
IsUS(edu) ==
    LET country == Lower(GetCountry(edu))
    IN  Contains(s_united_states, country) \/ Contains(s_usa, country)

(***************************************************************************)
(* infer_visa_status                                                       *)
(***************************************************************************)
FOREIGN_H1B == "Foreign/H1B"
CITIZEN_OR_GC == "Citizen/GC"
OPT_STEM == "OPT/STEM"
H1B == "H1B"
UNKNOWN == "Unknown"
VisaStatuses == {CITIZEN_OR_GC, OPT_STEM, H1B, FOREIGN_H1B, UNKNOWN}

CitizenYears == 10
OptYears == 3

\* the locals before the loop
ScanInit == [has_us_degree |-> FALSE, us_grad_year |-> 0, raised |-> FALSE]

\* ScanStep keeping the first US year found instead of the last
ScanStep_KeepFirst(st, edu) ==
    IF st.raised THEN st
    ELSE IF IsUS(edu)
    THEN LET date_str == DateStr(edu)
         IN  IF Len(date_str) >= 4 /\ ~st.has_us_degree
             THEN IF IntOk(Prefix(date_str, 4))
                  THEN [has_us_degree |-> TRUE,
                        us_grad_year |-> IntValue(Prefix(date_str, 4)),
                        raised |-> FALSE]
                  ELSE [has_us_degree |-> TRUE,
                        us_grad_year |-> st.us_grad_year,
                        raised |-> TRUE]
             ELSE [has_us_degree |-> TRUE,
                   us_grad_year |-> st.us_grad_year,
                   raised |-> FALSE]
    ELSE st

\* ScanStep resetting the year to 0 on a US record with a short end date
ScanStep_ResetOnShort(st, edu) ==
    IF st.raised THEN st
    ELSE IF IsUS(edu)
    THEN LET date_str == DateStr(edu)
         IN  IF Len(date_str) >= 4
             THEN IF IntOk(Prefix(date_str, 4))
                  THEN [has_us_degree |-> TRUE,
                        us_grad_year |-> IntValue(Prefix(date_str, 4)),
                        raised |-> FALSE]
                  ELSE [has_us_degree |-> TRUE,
                        us_grad_year |-> st.us_grad_year,
                        raised |-> TRUE]
             ELSE [has_us_degree |-> TRUE,
                   us_grad_year |-> 0,
                   raised |-> FALSE]
    ELSE st

\* one iteration of the for loop over education_history
ScanStep(st, edu) ==
    IF st.raised THEN st
    ELSE IF IsUS(edu)
    THEN LET date_str == DateStr(edu)
         IN  IF Len(date_str) >= 4
             THEN IF IntOk(Prefix(date_str, 4))
                  THEN [has_us_degree |-> TRUE,
                        us_grad_year |-> IntValue(Prefix(date_str, 4)),
                        raised |-> FALSE]
                  ELSE [has_us_degree |-> TRUE,
                        us_grad_year |-> st.us_grad_year,
                        raised |-> TRUE]
             ELSE [has_us_degree |-> TRUE,
                   us_grad_year |-> st.us_grad_year,
                   raised |-> FALSE]
    ELSE st

\* Classify returning the initial value of status when there is no US degree
Classify_UnknownDefault(has_us, year, now) ==
    IF ~has_us THEN UNKNOWN
    ELSE LET years_since_grad == now - year
         IN  IF years_since_grad >= CitizenYears THEN CITIZEN_OR_GC
             ELSE IF years_since_grad <= OptYears THEN OPT_STEM
             ELSE H1B

\* step 2 of infer_visa_status
Classify(has_us, year, now) ==
    IF ~has_us THEN FOREIGN_H1B
    ELSE LET years_since_grad == now - year
         IN  IF years_since_grad >= CitizenYears THEN CITIZEN_OR_GC
             ELSE IF years_since_grad <= OptYears THEN OPT_STEM
             ELSE H1B

\* the whole scan
RECURSIVE Scan(_)
Scan(history) ==
    IF history = <<>> THEN ScanInit
    ELSE ScanStep(Scan(SubSeq(history, 1, Len(history) - 1)),
                  history[Len(history)])

\* infer_visa_status(education_history) evaluated in year now;
\* "ValueError" stands for the exception leaving the function
ValueError == "ValueError"
infer_visa_status(history, now) ==
    LET st == Scan(history)
    IN  IF st.raised THEN ValueError
        ELSE Classify(st.has_us_degree, st.us_grad_year, now)

(***************************************************************************)
(* Inputs explored                                                         *)
(***************************************************************************)
c_United_States == StrV(<<"U","n","i","t","e","d"," ","S","t","a","t","e","s">>)
c_USA == StrV(<<"U","S","A">>)
c_India == StrV(<<"I","n","d","i","a">>)
c_China == StrV(<<"C","h","i","n","a">>)

d_20 == StrV(<<"2","0">>)
d_Present == StrV(<<"P","r","e","s","e","n","t">>)
d_2012 == StrV(<<"2","0","1","2">>)
d_2014 == StrV(<<"2","0","1","4">>)
d_2015 == IntV(2015)                 \* an end date given as a number
d_2019 == StrV(<<"2","0","1","9">>)
d_2020 == StrV(<<"2","0","2","0">>)
d_2021 == StrV(<<"2","0","2","1">>)
d_2021_05 == StrV(<<"2","0","2","1","-","0","5">>)

\* every end date under one US spelling, a few under the other spelling and
\* under the countries that fail the US test
EndDates == {Absent, None, d_20, d_Present, d_2014, d_2015, d_2020, d_2021_05}
FewDates == {Absent, d_Present, d_2014}
EduRecords ==
    [country : {c_United_States}, end_date : EndDates]
    \cup [country : {c_USA, c_India, Absent}, end_date : FewDates]
Histories == UNION {[1..n -> EduRecords] : n \in 0..MaxEdu}
CurrentYears == {2024, 2025}

(***************************************************************************)
(* One call of infer_visa_status, one loop iteration per step              *)
(***************************************************************************)
IdleRequest ==
    /\ PDL_API_KEY = FALSE
    /\ request = [title |-> "", visa_requirement |-> CITIZEN_OR_GC,
                  was_set |-> FALSE]
    /\ provider = [kind |-> "none"]
    /\ pc = "idle"
    /\ calls = 0
    /\ raw_candidates = <<>>
    /\ verified_candidates = <<>>
    /\ i = 0
    /\ response = [kind |-> "none"]

InitInfer ==
    /\ education_history \in Histories
    /\ ipc = "scan"
    /\ k = 0
    /\ has_us_degree = FALSE
    /\ us_grad_year = 0
    /\ current_year = 0
    /\ status = ""
    /\ IdleRequest

\* lines 134-141: one iteration of the loop
ScanRecord ==
    /\ ipc = "scan"
    /\ k < Len(education_history)
    /\ LET st == ScanStep([has_us_degree |-> has_us_degree,
                           us_grad_year |-> us_grad_year,
                           raised |-> FALSE],
                          education_history[k + 1])
       IN  /\ has_us_degree' = st.has_us_degree
           /\ us_grad_year' = st.us_grad_year
           /\ ipc' = IF st.raised THEN "raised" ELSE "scan"
           /\ k' = IF st.raised THEN k ELSE k + 1
    /\ UNCHANGED <<education_history, current_year, status>>
    /\ UNCHANGED requestVars

\* lines 143-160: read the clock, classify, return
ClassifyAndReturn ==
    /\ ipc = "scan"
    /\ k = Len(education_history)
    /\ \E now \in CurrentYears :
          /\ current_year' = now
          /\ status' = Classify(has_us_degree, us_grad_year, now)
    /\ ipc' = "returned"
    /\ UNCHANGED <<education_history, k, has_us_degree, us_grad_year>>
    /\ UNCHANGED requestVars

NextInfer == ScanRecord \/ ClassifyAndReturn

SpecInfer == InitInfer /\ [][NextInfer]_vars

(***************************************************************************)
(* JobRequest, the provider and find_candidates                            *)
(***************************************************************************)
\* JobRequest whose default requirement is "Any"
JobRequest_DefaultAny(body) ==
    [title |-> body.title,
     visa_requirement |-> IF body.visa_requirement.kind = "absent"
                          THEN "Any"
                          ELSE body.visa_requirement.s,
     was_set |-> body.visa_requirement.kind # "absent"]

\* pydantic validation of the request body: a missing visa_requirement takes
\* the declared default; was_set records whether the body carried the field
JobRequest(body) ==
    [title |-> body.title,
     visa_requirement |-> IF body.visa_requirement.kind = "absent"
                          THEN CITIZEN_OR_GC
                          ELSE body.visa_requirement.s,
     was_set |-> body.visa_requirement.kind # "absent"]

Requirements == {Absent, StrV(CITIZEN_OR_GC), StrV(H1B), StrV("Any")}
Bodies == [title : {"Java Developer"}, visa_requirement : Requirements]

\* education histories carried by the provider's persons
h_citizen == <<[country |-> c_United_States, end_date |-> d_2014]>>
h_h1b == <<[country |-> c_USA, end_date |-> d_2020]>>
h_recent == <<[country |-> c_United_States, end_date |-> d_2021_05],
              [country |-> c_India, end_date |-> d_2014]>>
h_foreign == <<[country |-> c_India, end_date |-> d_2014]>>
h_present == <<[country |-> c_USA, end_date |-> d_Present]>>

EmailList(items) == [kind |-> "list", items |-> items]

\* persons of a provider payload: dictionaries whose keys may be missing
Persons ==
    [full_name : {StrV("Ann")}, job_title : {Absent},
     education : {[kind |-> "list", items |-> h] :
                     h \in {h_citizen, h_h1b, h_recent, h_foreign, h_present}},
     work_email : {StrV("ann@example.com")}, personal_emails : {Absent},
     location_name : {StrV("Austin, TX")}]
    \cup
    [full_name : {Absent}, job_title : {Absent}, education : {Absent},
     work_email : {Absent},
     personal_emails : {Absent, EmailList(<<>>),
                        EmailList(<<"bob@example.com">>)},
     location_name : {Absent}]

Payloads == UNION {[1..n -> Persons] : n \in 0..MaxCands}

\* what requests.get can produce: an exception, or a response with a status
\* code whose body is or is not JSON, with or without the 'data' key
ProviderAnswers ==
    {[kind |-> "conn_error"]}
    \cup {[kind |-> "http", status_code |-> 500, json |-> [ok |-> FALSE]]}
    \cup {[kind |-> "http", status_code |-> 200, json |-> [ok |-> FALSE]]}
    \cup {[kind |-> "http", status_code |-> 200,
           json |-> [ok |-> TRUE, has_data |-> FALSE, data |-> <<>>]]}
    \cup {[kind |-> "http", status_code |-> 200,
           json |-> [ok |-> TRUE, has_data |-> TRUE, data |-> d]] :
              d \in Payloads}

\* dict.get(key, default) on a string-valued key
GetStr(v, default) == IF v.kind = "absent" THEN default ELSE v.s

\* person.get('work_email') or person.get('personal_emails', [''])[0];
\* indexing an empty list is an IndexError
EmailRaises(person) ==
    /\ GetStr(person.work_email, "") = ""
    /\ person.personal_emails.kind = "list"
    /\ person.personal_emails.items = <<>>
EmailOf(person) ==
    IF GetStr(person.work_email, "") # "" THEN person.work_email.s
    ELSE IF person.personal_emails.kind = "absent" THEN ""
    ELSE person.personal_emails.items[1]

\* one element of clean_list; annot holds the keys the handler adds later
NormalizePerson(person) ==
    [name |-> GetStr(person.full_name, "Unknown"),
     job_title |-> GetStr(person.job_title, "Developer"),
     education |-> IF person.education.kind = "absent" THEN <<>>
                   ELSE person.education.items,
     email |-> EmailOf(person),
     location |-> GetStr(person.location_name, "US"),
     annot |-> <<>>]

\* _normalize_pdl_data
NormalizeRaises(raw_data) ==
    \E j \in 1..Len(raw_data) : EmailRaises(raw_data[j])
_normalize_pdl_data(raw_data) ==
    [j \in 1..Len(raw_data) |-> NormalizePerson(raw_data[j])]

\* the body of the try block: TRUE iff it reaches the return of line 76
ProviderSucceeds(answer) ==
    /\ answer.kind = "http"
    /\ answer.status_code = 200
    /\ answer.json.ok
    /\ answer.json.has_data
    /\ ~NormalizeRaises(answer.json.data)

\* Block B: the static candidate set
MockCandidates ==
    <<[name |-> "Sarah Jones", job_title |-> "Senior Java Developer",
       education |-> <<[country |-> c_United_States, end_date |-> d_2012]>>,
       email |-> "sarah.j@example.com", location |-> "Austin, TX",
       annot |-> <<>>],
      [name |-> "Alex Chen", job_title |-> "Java Developer",
       education |-> <<[country |-> c_United_States, end_date |-> d_2021],
                       [country |-> c_China, end_date |-> d_2019]>>,
       email |-> "alex.c@example.com", location |-> "San Francisco, CA",
       annot |-> <<>>]>>

(***************************************************************************)
(* source_candidates                                                       *)
(***************************************************************************)
MinScore == 85
MaxScore == 99
Scores == {MinScore, MaxScore}     \* the ends of random.randint's range

\* the rejection test letting H1B through a Citizen/GC requirement
Rejects_H1BPasses(requirement, inferred_visa) ==
    requirement = CITIZEN_OR_GC /\ inferred_visa \notin {CITIZEN_OR_GC, H1B}

\* the rejection test applied to every requirement other than "Any"
Rejects_EveryRequirement(requirement, inferred_visa) ==
    requirement # "Any" /\ inferred_visa # requirement

\* the rejection test of line 204
Rejects(requirement, inferred_visa) ==
    requirement = CITIZEN_OR_GC /\ inferred_visa # CITIZEN_OR_GC

IdleInfer ==
    /\ education_history = <<>>
    /\ ipc = "idle"
    /\ k = 0
    /\ has_us_degree = FALSE
    /\ us_grad_year = 0
    /\ status = ""

Init ==
    /\ IdleInfer
    /\ current_year \in CurrentYears
    /\ PDL_API_KEY \in BOOLEAN
    /\ request \in {JobRequest(b) : b \in Bodies}
    /\ provider \in IF PDL_API_KEY THEN ProviderAnswers
                    ELSE {[kind |-> "none"]}
    /\ pc = "source"
    /\ calls = 0
    /\ raw_candidates = <<>>
    /\ verified_candidates = <<>>
    /\ i = 0
    /\ response = [kind |-> "none"]

\* CallProvider retrying once after a failure
CallProvider_Retry ==
    /\ pc = "source"
    /\ PDL_API_KEY
    /\ calls' = calls + 1
    /\ IF ProviderSucceeds(provider)
       THEN /\ raw_candidates' = _normalize_pdl_data(provider.json.data)
            /\ pc' = "verify"
       ELSE /\ raw_candidates' = raw_candidates
            /\ pc' = IF calls = 0 THEN "source" ELSE "block_b"
    /\ UNCHANGED <<PDL_API_KEY, request, provider, verified_candidates, i,
                   response>>
    /\ UNCHANGED inferVars

\* lines 57-80: the credential is set, the provider is called once; a
\* successful answer is returned normalised, anything else is logged and
\* falls through to Block B
CallProvider ==
    /\ pc = "source"
    /\ PDL_API_KEY
    /\ calls' = calls + 1
    /\ IF ProviderSucceeds(provider)
       THEN /\ raw_candidates' = _normalize_pdl_data(provider.json.data)
            /\ pc' = "verify"
       ELSE /\ raw_candidates' = raw_candidates
            /\ pc' = "block_b"
    /\ UNCHANGED <<PDL_API_KEY, request, provider, verified_candidates, i,
                   response>>
    /\ UNCHANGED inferVars

\* line 57 is false: no credential, straight to Block B
SkipProvider ==
    /\ pc = "source"
    /\ ~PDL_API_KEY
    /\ pc' = "block_b"
    /\ UNCHANGED <<PDL_API_KEY, request, provider, calls, raw_candidates,
                   verified_candidates, i, response>>
    /\ UNCHANGED inferVars

\* lines 83-101
BlockB ==
    /\ pc = "block_b"
    /\ raw_candidates' = MockCandidates
    /\ pc' = "verify"
    /\ UNCHANGED <<PDL_API_KEY, request, provider, calls,
                   verified_candidates, i, response>>
    /\ UNCHANGED inferVars

InferredVisa(cand) == infer_visa_status(cand.education, current_year)

\* lines 200-201 when int() raises: the exception leaves the handler
InferRaises ==
    /\ pc = "verify"
    /\ i < Len(raw_candidates)
    /\ InferredVisa(raw_candidates[i + 1]) = ValueError
    /\ response' = [kind |-> "error", where |-> "infer_visa_status"]
    /\ pc' = "failed"
    /\ UNCHANGED <<PDL_API_KEY, request, provider, calls, raw_candidates,
                   verified_candidates, i>>
    /\ UNCHANGED inferVars

\* lines 200-206: the candidate is skipped
SkipCandidate ==
    /\ pc = "verify"
    /\ i < Len(raw_candidates)
    /\ InferredVisa(raw_candidates[i + 1]) # ValueError
    /\ Rejects(request.visa_requirement, InferredVisa(raw_candidates[i + 1]))
    /\ i' = i + 1
    /\ UNCHANGED <<PDL_API_KEY, request, provider, pc, calls, raw_candidates,
                   verified_candidates, response>>
    /\ UNCHANGED inferVars

\* lines 200-212: the candidate's dictionary is annotated in place (the list
\* from find_candidates holds the same object) and appended
AcceptCandidate ==
    /\ pc = "verify"
    /\ i < Len(raw_candidates)
    /\ InferredVisa(raw_candidates[i + 1]) # ValueError
    /\ ~Rejects(request.visa_requirement, InferredVisa(raw_candidates[i + 1]))
    /\ \E score \in Scores :
          LET cand == [raw_candidates[i + 1] EXCEPT
                         !.annot = <<[verified_visa_status |->
                                         InferredVisa(raw_candidates[i + 1]),
                                      match_score |-> score,
                                      action_item |-> "Ready to Interview"]>>]
          IN  /\ raw_candidates' = [raw_candidates EXCEPT ![i + 1] = cand]
              /\ verified_candidates' = Append(verified_candidates, cand)
    /\ i' = i + 1
    /\ UNCHANGED <<PDL_API_KEY, request, provider, pc, calls, response>>
    /\ UNCHANGED inferVars

\* lines 214-219
Return ==
    /\ pc = "verify"
    /\ i = Len(raw_candidates)
    /\ response' = [kind |-> "ok",
                    job_title |-> request.title,
                    total_scanned |-> Len(raw_candidates),
                    verified_count |-> Len(verified_candidates),
                    candidates |-> verified_candidates]
    /\ pc' = "done"
    /\ UNCHANGED <<PDL_API_KEY, request, provider, calls, raw_candidates,
                   verified_candidates, i>>
    /\ UNCHANGED inferVars

Next ==
    \/ CallProvider
    \/ SkipProvider
    \/ BlockB
    \/ InferRaises
    \/ SkipCandidate
    \/ AcceptCandidate
    \/ Return

Spec == Init /\ [][Next]_vars

(***************************************************************************)
(* Vocabulary of the properties of infer_visa_status                       *)
(***************************************************************************)
InferDone == ipc \in {"returned", "raised"}
USIndices == {j \in 1..Len(education_history) : IsUS(education_history[j])}
Max(S) == CHOOSE m \in S : \A n \in S : n <= m
LastUS == education_history[Max(USIndices)]

\* an end date that starts with four decimal digits
WellFormed(edu) ==
    Len(DateStr(edu)) >= 4 /\ AllDigits(Prefix(DateStr(edu), 4))
EndYear(edu) == DecValue(Prefix(DateStr(edu), 4))
\* an end date that is missing or has fewer than four characters
ShortDate(edu) == Len(DateStr(edu)) < 4

\* the status the thresholds prescribe for a graduation in year y seen in
\* year now
Expected(y, now) ==
    CASE now - y >= 10 -> CITIZEN_OR_GC
      [] now - y <= 3  -> OPT_STEM
      [] OTHER         -> H1B

\* C1: when the last US-matching record has a well-formed end year y, the
\* call returns CITIZEN_OR_GC iff now - y >= 10, OPT_STEM iff now - y <= 3
\* and H1B iff 4 <= now - y <= 9.
C1_Thresholds ==
    (InferDone /\ USIndices # {} /\ WellFormed(LastUS))
        => /\ ipc = "returned"
           /\ status = Expected(EndYear(LastUS), current_year)

\* C2: a history with no US-matching record (the empty one included) yields
\* FOREIGN_H1B, whatever the end dates are.
C2_NoUSIsForeign ==
    (InferDone /\ USIndices = {}) => (ipc = "returned" /\ status = FOREIGN_H1B)

C2_Witness ==
    /\ ipc = "returned" /\ status = FOREIGN_H1B
    /\ Len(education_history) = 2
    /\ education_history[1].end_date = d_Present
    /\ education_history[2].end_date = d_2014

\* C5: a candidate whose only US-matching record has a missing or
\* too-short end date gets graduation year 0 and is not classified
\* CITIZEN_OR_GC.
C5_MalformedNotCitizen ==
    (InferDone /\ Cardinality(USIndices) = 1 /\ ShortDate(LastUS))
        => /\ us_grad_year = 0
           /\ ipc = "returned"
           /\ status \in VisaStatuses \ {CITIZEN_OR_GC}

\* C6: the call never raises: it always ends by returning a visa status.
C6_Total == InferDone => (ipc = "returned" /\ status \in VisaStatuses)

\* C8: with several US-matching records, all well-formed, the status is the
\* one prescribed for the end year of the last of them in sequence order.
C8_LastUSRecordDecides ==
    (InferDone /\ Cardinality(USIndices) >= 2
        /\ \A j \in USIndices : WellFormed(education_history[j]))
        => /\ ipc = "returned"
           /\ status = Expected(EndYear(LastUS), current_year)

C8_Witness ==
    /\ ipc = "returned" /\ current_year = 2024
    /\ Len(education_history) = 3
    /\ USIndices = {1, 3}
    /\ EndYear(education_history[1]) = 2020
    /\ EndYear(education_history[3]) = 2014
    /\ status = CITIZEN_OR_GC

Parsed ==
    {j \in 1..k : IsUS(education_history[j])
                    /\ Len(DateStr(education_history[j])) >= 4}

Plain(cand) == [cand EXCEPT !.annot = <<>>]
PlainSeq(cands) == [j \in 1..Len(cands) |-> Plain(cands[j])]
Fetched == PlainSeq(raw_candidates)
IsCitizen(cand) == InferredVisa(cand) = CITIZEN_OR_GC
Returned == pc = "done" /\ response.kind = "ok"

\* the failures of the provider call: connection error, non-200 status, a
\* body that is not JSON, lacks 'data', or cannot be normalised
Failure(answer) ==
    \/ answer.kind = "conn_error"
    \/ /\ answer.kind = "http"
       /\ \/ answer.status_code # 200
          \/ ~answer.json.ok
          \/ /\ answer.json.ok
             /\ (~answer.json.has_data \/ NormalizeRaises(answer.json.data))

C4_UnsetKeepsAll ==
    (Returned /\ ~request.was_set)
        => /\ response.verified_count = response.total_scanned
           /\ PlainSeq(response.candidates) = Fetched

\* C4 amended: a request that does not set visa_requirement is filtered
\* under the default Citizen/GC: the candidates returned are the fetched
\* ones inferred CITIZEN_OR_GC, and verified_count equals total_scanned
\* only when every fetched candidate is inferred CITIZEN_OR_GC.
C4_UnsetMeansCitizen ==
    (Returned /\ ~request.was_set)
        => /\ request.visa_requirement = CITIZEN_OR_GC
           /\ PlainSeq(response.candidates) = SelectSeq(Fetched, IsCitizen)
           /\ (response.verified_count = response.total_scanned)
                 <=> (\A j \in 1..Len(Fetched) : IsCitizen(Fetched[j]))

C4_Witness ==
    /\ Returned /\ ~request.was_set
    /\ response.total_scanned = 2
    /\ response.verified_count = 1

\* C7: when the credential is set and the provider call fails,
\* find_candidates returns the static candidate set, after exactly one
\* provider call, and no error of find_candidates reaches the caller.
C7_FallbackOnFailure ==
    /\ calls <= 1
    /\ (PDL_API_KEY /\ Failure(provider) /\ pc \in {"verify", "done", "failed"})
          => /\ calls = 1
             /\ Fetched = MockCandidates
             /\ response.kind = "error"
                   => response.where # "find_candidates"

C7_Witness ==
    /\ Returned /\ PDL_API_KEY
    /\ provider.kind = "http" /\ provider.status_code = 200
    /\ provider.json.ok /\ ~provider.json.has_data
    /\ calls = 1
    /\ response.total_scanned = Len(MockCandidates)

\* C9: under "Any", and under any other requirement different from
\* Citizen/GC such as "H1B", no candidate is excluded: the output is the
\* fetched list, same length, same order.
C9_OtherRequirementsKeepAll ==
    (Returned /\ request.visa_requirement # CITIZEN_OR_GC)
        => /\ Len(response.candidates) = Len(Fetched)
           /\ PlainSeq(response.candidates) = Fetched
           /\ response.verified_count = response.total_scanned

C9_Witness ==
    /\ Returned /\ request.visa_requirement = H1B
    /\ response.total_scanned = 2
    /\ Len(response.candidates) = 2
    /\ response.candidates[1].annot[1].verified_visa_status = FOREIGN_H1B
    /\ response.candidates[2].annot[1].verified_visa_status = CITIZEN_OR_GC

====
